---- MODULE Spec2Model ----
(***************************************************************************)
(* Junos prefix-list summarizer (junos_prefix_summarize.py).               *)
(*                                                                         *)
(* An IPv4 network is a record [network_address, prefixlen].  The address  *)
(* width is W bits in place of 32, so that sets of networks can be         *)
(* enumerated; every address computation is the one of Python's ipaddress  *)
(* module with 32 replaced by W.                                           *)
(*                                                                         *)
(* Two specifications:                                                     *)
(*   Spec      generate_changes_for_pl on one set of networks, with the    *)
(*             loop of exact_pairwise_merge taken one pass at a time;      *)
(*   SpecMain  main(): the lines are parsed into prefix lists, and each    *)
(*             list is processed in the order of its name.                 *)
(***************************************************************************)
EXTENDS Integers, Sequences, FiniteSets, TLC

\* ------------------------------------------------------------------ bounds

\* Address width in bits (32 in the program).
W == 3

\* Largest prefix list handed to generate_changes_for_pl under Spec.
MaxNets == 4

\* Number of input lines main() reads under SpecMain.
MaxLines == 4

\* Largest address written on an input line under SpecMain.
MaxLineAddr == 5

\* ------------------------------------------------- ipaddress.IPv4Network

RECURSIVE Pow2(_)
Pow2(n) == IF n = 0 THEN 1 ELSE 2 * Pow2(n - 1)

\* Number of addresses of a network of prefix length p.
NumAddresses(p) == Pow2(W - p)

Net(a, p) == [network_address |-> a, prefixlen |-> p]

\* IPv4Network(prefix_str, strict=False): the host bits are cleared.
IPv4Network(a, p) == Net(a - (a % NumAddresses(p)), p)

\* What IPv4Network accepts: an address of W bits and a length of at most W.
ValidPrefix(a, p) == a \in 0..(Pow2(W) - 1) /\ p \in 0..W

\* Every network there is.
Networks == { Net(a, p) : a \in 0..(Pow2(W) - 1), p \in 0..W } \cap
            { IPv4Network(a, p) : a \in 0..(Pow2(W) - 1), p \in 0..W }

broadcast_address(n) == n.network_address + NumAddresses(n.prefixlen) - 1

\* n.supernet(prefixlen_diff=1); the /0 network is its own supernet.
supernet(n) ==
    IF n.prefixlen = 0 THEN n
    ELSE IPv4Network(n.network_address, n.prefixlen - 1)

\* list(n.subnets(prefixlen_diff=1)); a /W network yields itself only.
subnets(n) ==
    IF n.prefixlen = W THEN << n >>
    ELSE << Net(n.network_address, n.prefixlen + 1),
            Net(n.network_address + NumAddresses(n.prefixlen + 1), n.prefixlen + 1) >>

\* a.subnet_of(b)
subnet_of(a, b) ==
    /\ b.network_address <= a.network_address
    /\ broadcast_address(b) >= broadcast_address(a)

\* The addresses a network covers, and a set of networks covers.
Addresses(n) == n.network_address .. broadcast_address(n)

Coverage(S) == UNION { Addresses(n) : n \in S }

\* --------------------------------------------------------------- sorting

\* key=lambda n: (int(n.network_address), n.prefixlen), compared as tuples.
KeyLess(a, b) ==
    \/ a.network_address < b.network_address
    \/ /\ a.network_address = b.network_address
       /\ a.prefixlen < b.prefixlen

RECURSIVE sorted(_)
sorted(S) ==
    IF S = {} THEN << >>
    ELSE LET m == CHOOSE x \in S : \A y \in S \ {x} : KeyLess(x, y)
         IN  << m >> \o sorted(S \ {m})

SeqToSet(s) == { s[k] : k \in 1..Len(s) }

\* ------------------------------------------------- exact_pairwise_merge

\* Mutant: line 110 left out, so any two adjacent networks of one length merge.
CanMerge_NoHalvesCheck(a, b) ==
    /\ a.prefixlen = b.prefixlen
    /\ broadcast_address(a) + 1 = b.network_address

\* The test of line 101 and of line 110 on two neighbours of the sorted list.
CanMerge(a, b) ==
    /\ a.prefixlen = b.prefixlen
    /\ broadcast_address(a) + 1 = b.network_address
    /\ LET subs == subnets(supernet(a))
       IN  Len(subs) = 2 /\ a = subs[1] /\ b = subs[2]

\* The inner while loop: the first index i (from 1) at which sorted_nets[i]
\* and sorted_nets[i+1] are merged, or 0 when the scan reaches the end.
RECURSIVE ScanFrom(_, _)
ScanFrom(sorted_nets, i) ==
    IF ~(i < Len(sorted_nets)) THEN 0
    ELSE IF CanMerge(sorted_nets[i], sorted_nets[i + 1]) THEN i
    ELSE ScanFrom(sorted_nets, i + 1)

\* Mutant: nets.add(cand) left out.
MergeInto_NoAdd(S, a, b) == (S \ {a}) \ {b}

\* Mutant: nets.remove(b) left out.
MergeInto_KeepsB(S, a, b) == (S \ {a}) \cup { supernet(a) }

\* Lines 112-114.
MergeInto(S, a, b) == ((S \ {a}) \ {b}) \cup { supernet(a) }

\* One pass of the outer loop (lines 93-118): the new working set, and
\* whether the pass merged.
MergePassOf(S) ==
    LET sorted_nets == sorted(S)
        i == ScanFrom(sorted_nets, 1)
    IN  IF i = 0 THEN [nets |-> S, changed |-> FALSE]
        ELSE [nets |-> MergeInto(S, sorted_nets[i], sorted_nets[i + 1]),
              changed |-> TRUE]

\* The whole function, as generate_changes_for_pl and main() call it.
RECURSIVE exact_pairwise_merge(_)
exact_pairwise_merge(networks_set) ==
    LET r == MergePassOf(networks_set)
    IN  IF r.changed THEN exact_pairwise_merge(r.nets) ELSE r.nets

\* ----------------------------------------------- generate_changes_for_pl

\* Mutant: the `continue` of lines 134-135 left out.
ToDelete_NoSkip(orig, fin) ==
    LET Keep(o) == \E f \in fin : subnet_of(o, f)
    IN  SelectSeq(sorted(orig), Keep)

\* Lines 131-138.
ToDelete(orig, fin) ==
    LET Keep(o) == o \notin fin /\ \E f \in fin : subnet_of(o, f)
    IN  SelectSeq(sorted(orig), Keep)

\* Mutant: the `continue` of lines 143-144 left out.
ToSet_NoOriginalSkip(orig, fin, deleted) ==
    LET Keep(f) == \E k \in 1..Len(deleted) : subnet_of(deleted[k], f)
    IN  SelectSeq(sorted(fin), Keep)

\* Lines 140-147.
ToSet(orig, fin, deleted) ==
    LET Keep(f) == f \notin orig /\ \E k \in 1..Len(deleted) : subnet_of(deleted[k], f)
    IN  SelectSeq(sorted(fin), Keep)

generate_changes_for_pl(original_nets) ==
    LET fin == exact_pairwise_merge(original_nets)
        del == ToDelete(original_nets, fin)
    IN  [to_delete |-> del,
         to_set |-> ToSet(original_nets, fin, del),
         orig_count |-> Cardinality(original_nets)]

\* ------------------------------------------------------------------ state

VARIABLES
    pc,          \* where the program is
    original,    \* generate_changes_for_pl: original
    nets,        \* exact_pairwise_merge: nets
    changed,     \* exact_pairwise_merge: changed
    final,       \* generate_changes_for_pl: final
    to_delete,   \* generate_changes_for_pl: to_delete
    to_set,      \* generate_changes_for_pl: to_set
    merges,      \* history: merges done by the running exact_pairwise_merge
    run,         \* history: which run of generate_changes_for_pl this is
    first_input, \* history: the set the first run was given
    nread,       \* main: lines of the input consumed so far
    pl,          \* parse_prefix_lists: pl, then main: prefix_lists
    todo,        \* main: names the loop of line 179 has yet to visit
    output_lines,\* main: output_lines
    summary,     \* main: summary
    outf,        \* main: the lines written to the output file
    parsed       \* history: the <<name, network>> pairs read from the input

mergeVars == << original, nets, changed, final, to_delete, to_set, merges, run,
                first_input >>

mainVars == << nread, pl, todo, output_lines, summary, outf, parsed >>

vars == << pc, mergeVars, mainVars >>

Init ==
    /\ pc = "idle"
    /\ original = {}
    /\ first_input = {}
    /\ nets = {}
    /\ changed = FALSE
    /\ final = {}
    /\ to_delete = << >>
    /\ to_set = << >>
    /\ merges = 0
    /\ run = 0
    /\ nread = 0
    /\ pl = << >>
    /\ todo = << >>
    /\ output_lines = << >>
    /\ summary = << >>
    /\ outf = << >>
    /\ parsed = {}

\* Line 76, pl[name].add(net): the prefix list that generate_changes_for_pl
\* will be given is built one network at a time.
AddNet ==
    /\ pc = "idle"
    /\ Cardinality(original) < MaxNets
    /\ \E net \in Networks : original' = original \cup {net}
    /\ UNCHANGED << pc, nets, changed, final, to_delete, to_set, merges, run,
                    first_input, mainVars >>

\* Lines 128-129 and 90-91: generate_changes_for_pl is called with a set of
\* networks and calls the aggregator, which copies its argument.
Call(original_nets) ==
    /\ original' = original_nets
    /\ nets' = original_nets
    /\ changed' = TRUE
    /\ merges' = 0
    /\ run' = run + 1
    /\ pc' = "while"
    /\ UNCHANGED << final, to_delete, to_set, mainVars >>

\* The first call, on the prefix list: parse_prefix_lists creates a list only
\* when it adds a network to it, so the list is not empty.
CallMerge ==
    /\ pc = "idle"
    /\ original # {}
    /\ Call(original)
    /\ first_input' = original

\* A second call, on the set the aggregator returned.
Rerun ==
    /\ pc = "done"
    /\ run = 1
    /\ Call(final)
    /\ UNCHANGED first_input

\* Mutant: line 115, changed = True, left out.
MergePass_ForgetsChanged ==
    /\ pc = "while"
    /\ changed
    /\ MergePassOf(nets).changed
    /\ nets' = MergePassOf(nets).nets
    /\ changed' = FALSE
    /\ merges' = merges + 1
    /\ UNCHANGED << pc, original, final, to_delete, to_set, run, first_input,
                    mainVars >>

\* Lines 92-118, a pass that merges: the first eligible pair of neighbours is
\* replaced by its supernet and the scan is abandoned.
MergePass ==
    /\ pc = "while"
    /\ changed
    /\ MergePassOf(nets).changed
    /\ nets' = MergePassOf(nets).nets
    /\ changed' = TRUE
    /\ merges' = merges + 1
    /\ UNCHANGED << pc, original, final, to_delete, to_set, run, first_input,
                    mainVars >>

\* Lines 92-118, a pass whose scan reaches the end: nothing is merged.
LastPass ==
    /\ pc = "while"
    /\ changed
    /\ ~MergePassOf(nets).changed
    /\ changed' = FALSE
    /\ UNCHANGED << pc, nets, original, final, to_delete, to_set, merges, run,
                    first_input, mainVars >>

\* Lines 92, 120 and 129: the loop ends and the working set is returned.
ReturnMerge ==
    /\ pc = "while"
    /\ ~changed
    /\ final' = nets
    /\ pc' = "diff"
    /\ UNCHANGED << original, nets, changed, to_delete, to_set, merges, run,
                    first_input, mainVars >>

\* Lines 131-149.
Diff ==
    /\ pc = "diff"
    /\ to_delete' = ToDelete(original, final)
    /\ to_set' = ToSet(original, final, to_delete')
    /\ pc' = "done"
    /\ UNCHANGED << original, nets, changed, final, merges, run, first_input,
                    mainVars >>

Next ==
    \/ AddNet
    \/ CallMerge
    \/ MergePass
    \/ LastPass
    \/ ReturnMerge
    \/ Diff
    \/ Rerun

Spec == Init /\ [][Next]_vars

\* ------------------------------------------------------------------- main

\* The names of the prefix lists in the input, in the order sorted() gives
\* them (line 179).
GroupNames == << "PL_A", "PL_B" >>

NameRank(name) == CHOOSE k \in 1..Len(GroupNames) : GroupNames[k] = name

\* sorted(prefix_lists.keys())
RECURSIVE sorted_names(_)
sorted_names(S) ==
    IF S = {} THEN << >>
    ELSE LET m == CHOOSE x \in S : \A y \in S : NameRank(x) <= NameRank(y)
         IN  << m >> \o sorted_names(S \ {m})

\* What PREFIX_RE.findall finds on a line: nothing, or a name and a prefix
\* string, whose address and length are numbers IPv4Network may refuse.
NoMatch == << >>

Match(name, a, p) == << [name |-> name, addr |-> a, len |-> p] >>

Lines ==
    { NoMatch } \cup
    { Match(GroupNames[k], a, p) : k \in 1..Len(GroupNames),
                                   a \in 0..MaxLineAddr, p \in 0..(W + 1) }

\* Mutant: one set for every name, kept under the first name seen.
PlAdd_IgnoresName(p, name, net) ==
    LET key == IF DOMAIN p = {} THEN name ELSE CHOOSE n \in DOMAIN p : TRUE
    IN  [ n \in {key} |-> (IF n \in DOMAIN p THEN p[n] ELSE {}) \cup {net} ]

\* Line 76 on the defaultdict: pl[name].add(net).
PlAdd(p, name, net) ==
    [ n \in DOMAIN p \cup {name} |->
        (IF n \in DOMAIN p THEN p[n] ELSE {}) \cup (IF n = name THEN {net} ELSE {}) ]

\* Lines 72-79 for the matches of one line, from the k-th on.
RECURSIVE ParseMatches(_, _, _)
ParseMatches(p, matches, k) ==
    IF k > Len(matches) THEN p
    ELSE LET m == matches[k]
         IN  IF ValidPrefix(m.addr, m.len)
             THEN ParseMatches(PlAdd(p, m.name, IPv4Network(m.addr, m.len)),
                               matches, k + 1)
             ELSE ParseMatches(p, matches, k + 1)

\* n.with_prefixlen: the address and the length, written out.
format_net(n) == << n.network_address, n.prefixlen >>

\* Lines 187 and 191: one statement of the output.
Statement(action, name, n) ==
    [action |-> action, name |-> name, prefix |-> format_net(n)]

\* Lines 186-191: the delete lines, then the set lines, each sorted again.
RECURSIVE StatementsOf(_, _, _, _)
StatementsOf(action, name, sorted_nets, k) ==
    IF k > Len(sorted_nets) THEN << >>
    ELSE << Statement(action, name, sorted_nets[k]) >>
           \o StatementsOf(action, name, sorted_nets, k + 1)

\* Mutant: the two loops of lines 186-191 in the other order.
GroupStatements_SetFirst(name, changes) ==
    StatementsOf("set", name, sorted(SeqToSet(changes.to_set)), 1)
      \o StatementsOf("delete", name, sorted(SeqToSet(changes.to_delete)), 1)

GroupStatements(name, changes) ==
    StatementsOf("delete", name, sorted(SeqToSet(changes.to_delete)), 1)
      \o StatementsOf("set", name, sorted(SeqToSet(changes.to_set)), 1)

InitMain ==
    /\ pc = "parse"
    /\ original = {}
    /\ first_input = {}
    /\ nets = {}
    /\ changed = FALSE
    /\ final = {}
    /\ to_delete = << >>
    /\ to_set = << >>
    /\ merges = 0
    /\ run = 0
    /\ nread = 0
    /\ pl = << >>
    /\ todo = << >>
    /\ output_lines = << >>
    /\ summary = << >>
    /\ outf = << >>
    /\ parsed = {}

\* Lines 71-79, one line of the input.
ParseLine ==
    /\ pc = "parse"
    /\ nread < MaxLines
    /\ \E ln \in Lines :
         /\ pl' = ParseMatches(pl, ln, 1)
         /\ parsed' = parsed \cup
              { << ln[k].name, IPv4Network(ln[k].addr, ln[k].len) >> :
                  k \in { j \in 1..Len(ln) : ln[j].addr < Pow2(W) /\ ln[j].len <= W } }
    /\ nread' = nread + 1
    /\ UNCHANGED << pc, mergeVars, todo, output_lines, summary, outf >>

\* Lines 80, 173-179: the input is consumed; the loop over the names starts.
EndParse ==
    /\ pc = "parse"
    /\ nread = MaxLines
    /\ todo' = sorted_names(DOMAIN pl)
    /\ pc' = "groups"
    /\ UNCHANGED << mergeVars, nread, pl, output_lines, summary, outf, parsed >>

\* Lines 180-183: a prefix list with nothing to delete and nothing to set.
SkipGroup ==
    /\ pc = "groups"
    /\ todo # << >>
    /\ LET name == Head(todo)
           changes == generate_changes_for_pl(pl[name])
       IN  /\ changes.to_delete = << >>
           /\ changes.to_set = << >>
    /\ todo' = Tail(todo)
    /\ UNCHANGED << pc, mergeVars, nread, pl, output_lines, summary, outf, parsed >>

\* Lines 180-193: the statements and the summary entry of a prefix list.
EmitGroup ==
    /\ pc = "groups"
    /\ todo # << >>
    /\ LET name == Head(todo)
           changes == generate_changes_for_pl(pl[name])
       IN  /\ ~(changes.to_delete = << >> /\ changes.to_set = << >>)
           /\ output_lines' = output_lines \o GroupStatements(name, changes)
           /\ summary' = [ n \in DOMAIN summary \cup {name} |->
                             IF n = name
                             THEN << changes.orig_count, Len(changes.to_delete),
                                     Len(changes.to_set) >>
                             ELSE summary[n] ]
    /\ todo' = Tail(todo)
    /\ UNCHANGED << pc, mergeVars, nread, pl, outf, parsed >>

\* Lines 196-198: the output file is written.
WriteOutput ==
    /\ pc = "groups"
    /\ todo = << >>
    /\ outf' = output_lines
    /\ pc' = "written"
    /\ UNCHANGED << mergeVars, nread, pl, todo, output_lines, summary, parsed >>

NextMain ==
    \/ ParseLine
    \/ EndParse
    \/ SkipGroup
    \/ EmitGroup
    \/ WriteOutput

SpecMain == InitMain /\ [][NextMain]_vars

\* ------------------------------------------------ the spec's staged sweep

\* Spec section 4.2, "exact sibling merge": equal length, b's interval
\* directly after a's, and both the two halves of one supernet.
Eligible(a, b) ==
    /\ a.prefixlen = b.prefixlen
    /\ a.prefixlen > 0
    /\ b.network_address = broadcast_address(a) + 1
    /\ subnet_of(b, IPv4Network(a.network_address, a.prefixlen - 1))
    /\ IPv4Network(a.network_address, a.prefixlen - 1).network_address
         = a.network_address

\* One sweep at one length: same_len is the working set restricted to that
\* length, sorted by base address; the scan goes on past a merged pair.
RECURSIVE SweepPairs(_, _, _)
SweepPairs(work, same_len, i) ==
    IF ~(i < Len(same_len)) THEN work
    ELSE IF Eligible(same_len[i], same_len[i + 1])
         THEN SweepPairs(((work \ {same_len[i]}) \ {same_len[i + 1]}) \cup
                           { IPv4Network(same_len[i].network_address,
                                         same_len[i].prefixlen - 1) },
                         same_len, i + 2)
         ELSE SweepPairs(work, same_len, i + 1)

\* Lengths from p down to 1.
RECURSIVE SweepFrom(_, _)
SweepFrom(work, p) ==
    IF p = 0 THEN work
    ELSE SweepFrom(SweepPairs(work, sorted({ n \in work : n.prefixlen = p }), 1),
                   p - 1)

StagedSweep(S) == SweepFrom(S, W)

\* Two networks that are the two halves of one supernet.
Siblings(a, b) ==
    /\ a # b
    /\ a.prefixlen = b.prefixlen
    /\ a.prefixlen > 0
    /\ Addresses(a) \cup Addresses(b)
         = Addresses(IPv4Network(a.network_address, a.prefixlen - 1))

Nested(S) == \E a, b \in S : a # b /\ subnet_of(a, b)

Returned == pc \in {"diff", "done"}

\* ------------------------------------------------------------------ claims

\* C1: the working set of exact_pairwise_merge covers exactly the addresses
\* of its input after every pass of the loop, and so does the set returned.
CoveragePreserved ==
    /\ pc = "while" => Coverage(nets) = Coverage(original)
    /\ Returned => Coverage(final) = Coverage(original)

\* C1 witness: a set with nested networks has been merged and returned.
CoverageWitness ==
    /\ pc = "diff"
    /\ merges >= 2
    /\ Nested(original)

\* C2: applying the edit, (original minus to_delete) plus to_set, leaves the
\* covered addresses as they were.
EditPreservesCoverage ==
    pc = "done" =>
        Coverage((original \ SeqToSet(to_delete)) \cup SeqToSet(to_set))
            = Coverage(original)

\* C2 witness: an edit that deletes, sets, and leaves part of the list alone.
EditWitness ==
    /\ pc = "done"
    /\ to_delete # << >>
    /\ to_set # << >>
    /\ original \ SeqToSet(to_delete) # {}

\* C3 as claimed: the set returned holds no two sibling networks.
NoSiblingsInResult ==
    Returned => \A a, b \in final : ~Siblings(a, b)

\* C4: run again on the set the aggregator returned, the aggregator returns
\* that set unchanged and the edit is empty.
Idempotent ==
    (run >= 2 /\ pc = "done") =>
        /\ final = original
        /\ to_delete = << >>
        /\ to_set = << >>

\* C4 witness: the second run has ended, after a first run that merged.
IdempotentWitness ==
    /\ run >= 2
    /\ pc = "done"
    /\ original # first_input

\* C6: every original network lies inside one network of the final set, and
\* to_delete is exactly the original networks missing from the final set.
OriginalsCovered ==
    /\ Returned => \A o \in original : \E f \in final : subnet_of(o, f)
    /\ pc = "done" =>
         /\ SeqToSet(to_delete) = original \ final
         /\ Len(to_delete) = Cardinality(original \ final)

\* C6 witness: some original network is gone from the final set.
OriginalsCoveredWitness ==
    /\ pc = "done"
    /\ original \ final # {}
    /\ original \cap final # {}

\* C7: a network of to_set is new and contains a network of to_delete; a
\* network of to_delete is an original one missing from the final set; no
\* network is in both.
DiffMinimal ==
    pc = "done" =>
        /\ \A s \in SeqToSet(to_set) :
             /\ s \notin original
             /\ \E d \in SeqToSet(to_delete) : subnet_of(d, s)
        /\ \A d \in SeqToSet(to_delete) : d \in original /\ d \notin final
        /\ SeqToSet(to_delete) \cap SeqToSet(to_set) = {}

\* C7 witness: an edit in which a final network that is also an original one
\* contains a deleted network, and another final network is set.
DiffMinimalWitness ==
    /\ pc = "done"
    /\ to_set # << >>
    /\ \E f \in final \cap original :
         \E d \in SeqToSet(to_delete) : subnet_of(d, f)

\* C9 as claimed: the set returned is the one the staged sweep produces.
EqualsStagedSweep ==
    Returned => final = StagedSweep(original)

\* C10: the loop of exact_pairwise_merge ends.  Inside the loop there is always
\* a next step, and each step is the return, a pass that merges once and makes
\* the working set strictly smaller, or a pass that merges nothing and clears
\* `changed`, after which only the return is left; the merges done never
\* exceed |input| - 1.
MergeTerminates ==
    [][pc = "while" =>
         /\ \/ pc' = "diff" /\ ~changed
            \/ /\ pc' = "while"
               /\ changed /\ changed'
               /\ Cardinality(nets') < Cardinality(nets)
               /\ merges' = merges + 1
               /\ merges' <= Cardinality(original) - 1
            \/ /\ pc' = "while"
               /\ changed /\ ~changed'
               /\ nets' = nets
               /\ merges' = merges]_vars

\* C10 witness: a run that did all of its |input| - 1 merges.
MergeTerminatesWitness ==
    /\ pc = "diff"
    /\ merges = Cardinality(original) - 1
    /\ merges >= 3

\* ----------------------------------------------------------- main: claims

\* The networks the input gave under one name.
ParsedUnder(name) == { e[2] : e \in { x \in parsed : x[1] = name } }

\* The networks of the statements written for one name with one action.
Written(action, name) ==
    { outf[k].prefix : k \in { j \in 1..Len(outf) :
                                 outf[j].name = name /\ outf[j].action = action } }

PrefixAddresses(prefix) == Addresses(Net(prefix[1], prefix[2]))

\* C5: the statements written for a name are the edit of the networks the
\* input gave under that name, whatever the other names hold; a network that
\* is set covers only addresses of networks given under its own name, and a
\* network that is deleted was given under its own name.
GroupIsolation ==
    pc = "written" =>
        \A k \in 1..Len(GroupNames) :
            LET name == GroupNames[k]
                own == ParsedUnder(name)
                edit == generate_changes_for_pl(own)
            IN  /\ Written("delete", name)
                     = { format_net(d) : d \in SeqToSet(edit.to_delete) }
                /\ Written("set", name)
                     = { format_net(f) : f \in SeqToSet(edit.to_set) }
                /\ \A prefix \in Written("set", name) :
                     PrefixAddresses(prefix) \subseteq Coverage(own)
                /\ \A prefix \in Written("delete", name) :
                     prefix \in { format_net(o) : o \in own }

\* C5 witness: two sibling networks were given under two different names,
\* neither name has both, and statements were written for one of the names.
GroupIsolationWitness ==
    /\ pc = "written"
    /\ outf # << >>
    /\ \E a \in ParsedUnder(GroupNames[1]) : \E b \in ParsedUnder(GroupNames[2]) :
         /\ Siblings(a, b)
         /\ b \notin ParsedUnder(GroupNames[1])
         /\ a \notin ParsedUnder(GroupNames[2])
         /\ \E j \in 1..Len(outf) : outf[j].prefix = format_net(a)

PrefixLess(x, y) == x[1] < y[1] \/ (x[1] = y[1] /\ x[2] < y[2])

\* C8: in the file the names ascend and each name's statements are together,
\* a name's delete statements come before its set statements, the prefixes of
\* each kind strictly ascend by (address, length), and a prefix list with
\* nothing to delete and nothing to set has no statement and no summary entry.
OutputOrdered ==
    pc = "written" =>
        /\ \A i, j \in 1..Len(outf) :
             i < j =>
               /\ NameRank(outf[i].name) <= NameRank(outf[j].name)
               /\ outf[i].name = outf[j].name =>
                    /\ ~(outf[i].action = "set" /\ outf[j].action = "delete")
                    /\ outf[i].action = outf[j].action =>
                         PrefixLess(outf[i].prefix, outf[j].prefix)
        /\ \A name \in DOMAIN pl :
             LET edit == generate_changes_for_pl(pl[name])
             IN  (edit.to_delete = << >> /\ edit.to_set = << >>) <=>
                   /\ \A j \in 1..Len(outf) : outf[j].name # name
                   /\ name \notin DOMAIN summary

\* C8 witness: a file with delete and set statements for two names.
OutputOrderedWitness ==
    /\ pc = "written"
    /\ \A k \in 1..Len(GroupNames) :
         /\ Cardinality(Written("delete", GroupNames[k])) >= 2
         /\ Written("set", GroupNames[k]) # {}

\* Seen on the way: a file with two set statements for one name, and a file
\* that leaves out a name of the input.
TwoSetStatements ==
    /\ pc = "written"
    /\ \E k \in 1..Len(GroupNames) : Cardinality(Written("set", GroupNames[k])) >= 2

SkippedGroup ==
    /\ pc = "written"
    /\ outf # << >>
    /\ \E name \in DOMAIN pl : name \notin DOMAIN summary

====
